---------------------------- MODULE Spec2Model ----------------------------
(***************************************************************************)
(* Model of the timezone timetable generator (src/main.py,                 *)
(* src/timezone_manager.py, src/table_generator.py).                       *)
(*                                                                         *)
(* Spec        one run of main(): construction of the TimezoneManager,     *)
(*             the loading pass over the countries file, the row loop and  *)
(*             the top-level exception handler.                            *)
(* SpecEngine  the functions of the period engine applied to inputs drawn  *)
(*             from bounded sets: get_period_type, get_time_periods,       *)
(*             format_time and _draw_title.                                *)
(*                                                                         *)
(* Time is counted in minutes.  Instants are minutes of UTC since          *)
(* 2024-03-30T00:00Z; a datetime carries a wall-clock reading (minutes     *)
(* since 2024-03-30 00:00 on its own clock) and the UTC offset of the      *)
(* tzinfo attached to it, as a pytz-localized datetime does.               *)
(***************************************************************************)
EXTENDS Integers, Sequences, FiniteSets, TLC

VARIABLES
    pc,             \* position of the run
    all_timezones,  \* zone identifiers the installed timezone database knows
    reference,      \* args.reference
    countries,      \* the lines of args.countries read so far
    reference_tz,   \* tz_manager.reference_tz
    file_opened,    \* load_timezones has opened the file
    timezones,      \* list accumulated / returned by load_timezones
    warnings,       \* number of warnings printed on standard output
    timezone_data,  \* main's list of rows
    calls,          \* number of get_time_periods calls
    err,            \* exception that reached main's handler
    stderr,         \* messages printed on standard error
    exit_code,      \* process exit status (NoExit while running)
    rendered,       \* generate_table has been called
    output_written, \* the PNG has been saved
    title,          \* the title _draw_title composes
    mode,           \* which engine function the engine inputs are for
    target_tz,      \* engine input: target zone
    anchor,         \* engine input: the instant datetime.now() returns
    reference_time_arg, \* engine input: the argument reference_time
    output_path,    \* engine input: the argument output_path
    periods,        \* engine output: result of get_time_periods
    labels,         \* engine output: format_time of every period
    hour_in,        \* engine input: get_period_type hour
    minute_in,      \* engine input: get_period_type minute
    type_out        \* engine output: get_period_type result

vars == <<pc, all_timezones, reference, countries, reference_tz, file_opened,
          timezones, warnings, timezone_data, calls, err, stderr, exit_code,
          rendered, output_written, title, mode, target_tz, anchor,
          reference_time_arg, output_path, periods, labels, hour_in, minute_in,
          type_out>>

runVars == <<pc, all_timezones, reference, countries, reference_tz, file_opened,
             timezones, warnings, timezone_data, calls, err, stderr, exit_code,
             rendered, output_written, title>>

engineVars == <<mode, target_tz, anchor, reference_time_arg, output_path,
                periods, labels, hour_in, minute_in, type_out>>

-----------------------------------------------------------------------------
(* Bounds *)

\* longest countries file, in lines
MaxLines == 3
\* longest table passed to generate_table, in rows
MaxRows == 2
\* spacing of the clock readings tried, in minutes
AnchorStep == 30

-----------------------------------------------------------------------------
(* Python values *)

None == "None"
NoneTz == [kind |-> "None", zone |-> None]
\* exit_code while the process is still running
NoExit == 0 - 1
NoErr == [type |-> None, msg |-> None]
\* no title drawn yet
\* output paths: one that can be written, one whose parent cannot be
\* created because it lies under a regular file, one that cannot be written
Writable == "writable"
UnderAFile == "under_a_file"
Unwritable == "unwritable"
OutputPaths == {Writable, UnderAFile, Unwritable}

NoTitle == [season |-> None, country |-> None, offset_str |-> <<>>]

\* a pytz timezone object
Tz(z) == [kind |-> "tzinfo", zone |-> z]

\* the tuple (country_name, tz) load_timezones appends
Pair(n, tz) == [kind |-> "tuple", name |-> n, tz |-> tz]

-----------------------------------------------------------------------------
(* The country and timezone databases (pycountry, pytz) *)

\* pycountry.countries.get(alpha_3=code): the country record or None
NoCountry == [alpha_2 |-> None, name |-> None]

countries_get(code) ==
    CASE code = "FRA" -> [alpha_2 |-> "FR", name |-> "France"]
      [] code = "DEU" -> [alpha_2 |-> "DE", name |-> "Germany"]
      [] code = "IND" -> [alpha_2 |-> "IN", name |-> "India"]
      [] code = "NPL" -> [alpha_2 |-> "NP", name |-> "Nepal"]
      [] code = "USA" -> [alpha_2 |-> "US", name |-> "United States"]
      [] code = "BVT" -> [alpha_2 |-> "BV", name |-> "Bouvet Island"]
      [] code = "HTI" -> [alpha_2 |-> "HT", name |-> "Haiti"]
      [] OTHER -> NoCountry

\* pytz.country_timezones.get(alpha_2, [])
country_timezones_get(a2) ==
    CASE a2 = "FR" -> <<"Europe/Paris">>
      [] a2 = "DE" -> <<"Europe/Berlin", "Europe/Busingen">>
      [] a2 = "IN" -> <<"Asia/Kolkata">>
      [] a2 = "NP" -> <<"Asia/Kathmandu">>
      [] a2 = "US" -> <<"America/New_York", "America/Detroit", "America/Chicago">>
      [] a2 = "HT" -> <<"America/Port-au-Prince">>
      [] OTHER -> <<>>

\* self.multi_timezone_countries
MultiCodes ==
    {"USA-E", "USA-C", "USA-M", "USA-P", "RUS-W", "RUS-C", "RUS-E", "CAN-E",
     "CAN-C", "CAN-M", "CAN-P", "BRA-E", "BRA-C", "CHN-E", "CHN-W", "AUS-E",
     "AUS-C", "AUS-W"}

multi_timezone_countries(code) ==
    CASE code = "USA-E" -> <<"United States (Eastern)", "America/New_York">>
      [] code = "USA-C" -> <<"United States (Central)", "America/Chicago">>
      [] code = "USA-M" -> <<"United States (Mountain)", "America/Denver">>
      [] code = "USA-P" -> <<"United States (Pacific)", "America/Los_Angeles">>
      [] code = "RUS-W" -> <<"Russia (Western)", "Europe/Moscow">>
      [] code = "RUS-C" -> <<"Russia (Central)", "Asia/Yekaterinburg">>
      [] code = "RUS-E" -> <<"Russia (Eastern)", "Asia/Vladivostok">>
      [] code = "CAN-E" -> <<"Canada (Eastern)", "America/Toronto">>
      [] code = "CAN-C" -> <<"Canada (Central)", "America/Winnipeg">>
      [] code = "CAN-M" -> <<"Canada (Mountain)", "America/Edmonton">>
      [] code = "CAN-P" -> <<"Canada (Pacific)", "America/Vancouver">>
      [] code = "BRA-E" -> <<"Brazil (Eastern)", "America/Sao_Paulo">>
      [] code = "BRA-C" -> <<"Brazil (Central)", "America/Manaus">>
      [] code = "CHN-E" -> <<"China (Eastern)", "Asia/Shanghai">>
      [] code = "CHN-W" -> <<"China (Western)", "Asia/Urumqi">>
      [] code = "AUS-E" -> <<"Australia (Eastern)", "Australia/Sydney">>
      [] code = "AUS-C" -> <<"Australia (Central)", "Australia/Adelaide">>
      [] code = "AUS-W" -> <<"Australia (Western)", "Australia/Perth">>

\* pytz.all_timezones of a complete installation (the identifiers the model uses)
FullZones ==
    {multi_timezone_countries(c)[2] : c \in MultiCodes}
        \cup {"Europe/Paris", "Europe/Berlin", "Europe/Busingen", "Asia/Kolkata",
              "Asia/Kathmandu", "America/Detroit", "UTC", "Etc/GMT-5",
              "America/Port-au-Prince"}

\* the databases a run can meet: the complete one, and one whose zone files
\* lack an identifier the composite table names
Databases == {FullZones, FullZones \ {"Asia/Urumqi"}}

\* '-' in token, for the tokens of the model: the strings that contain the
\* character '-'
HasHyphen(token) ==
    token \in MultiCodes \cup {"USA-X", "Etc/GMT-5", "America/Port-au-Prince"}

\* pytz.timezone(name) raises UnknownTimeZoneError
UnknownTimeZone(name, db) == name \notin db

-----------------------------------------------------------------------------
(* Timezone rules of the database, 2024-03-30 .. 2024-04-08 *)

MinutesPerDay == 24 * 60

\* 2024-03-31T01:00Z: Central European Time -> Central European Summer Time
EuropeSpring == MinutesPerDay + 60
\* 2024-04-06T16:00Z: end of daylight saving in New South Wales
SydneyAutumn == 7 * MinutesPerDay + 16 * 60
\* 2024-04-06T16:30Z: end of daylight saving in South Australia
AdelaideAutumn == 7 * MinutesPerDay + 16 * 60 + 30

\* tz.utcoffset at the UTC instant u (minutes east of UTC), as tz.fromutc finds it
utcoffset(z, u) ==
    CASE z \in {"Europe/Paris", "Europe/Berlin", "Europe/Busingen"} ->
            IF u < EuropeSpring THEN 60 ELSE 120
      [] z = "Australia/Sydney" -> IF u < SydneyAutumn THEN 660 ELSE 600
      [] z = "Australia/Adelaide" -> IF u < AdelaideAutumn THEN 630 ELSE 570
      [] z \in {"America/New_York", "America/Detroit", "America/Toronto",
                "America/Port-au-Prince", "America/Manaus"} -> 0 - 240
      [] z \in {"America/Chicago", "America/Winnipeg"} -> 0 - 300
      [] z \in {"America/Denver", "America/Edmonton"} -> 0 - 360
      [] z \in {"America/Los_Angeles", "America/Vancouver"} -> 0 - 420
      [] z = "America/Sao_Paulo" -> 0 - 180
      [] z = "Europe/Moscow" -> 180
      [] z \in {"Asia/Yekaterinburg", "Etc/GMT-5"} -> 300
      [] z = "Asia/Kolkata" -> 330
      [] z = "Asia/Kathmandu" -> 345
      [] z = "Asia/Urumqi" -> 360
      [] z \in {"Asia/Shanghai", "Australia/Perth"} -> 480
      [] z = "Asia/Vladivostok" -> 600
      [] OTHER -> 0

\* an aware datetime: its wall-clock reading and the offset of its tzinfo
Datetime(w, o) == [wall |-> w, off |-> o]

\* the UTC instant an aware datetime denotes
Instant(dt) == dt.wall - dt.off

\* dt.date(), dt.hour, dt.minute
DateOf(dt) == dt.wall \div MinutesPerDay
HourOf(dt) == (dt.wall % MinutesPerDay) \div 60
MinuteOf(dt) == dt.wall % 60

\* datetime.now(tz) when the clock reads the UTC instant u
now(tz, u) == Datetime(u + utcoffset(tz.zone, u), utcoffset(tz.zone, u))

\* dt.replace(hour=h, minute=0, second=0, microsecond=0): the fields change,
\* the tzinfo (and so the offset) stays
replace_hour(dt, h) == Datetime(DateOf(dt) * MinutesPerDay + h * 60, dt.off)

\* dt.astimezone(tz) for a pytz zone: same instant, the zone's offset there
astimezone(dt, tz) ==
    Datetime(Instant(dt) + utcoffset(tz.zone, Instant(dt)),
             utcoffset(tz.zone, Instant(dt)))

-----------------------------------------------------------------------------
(* TimezoneManager: the period engine *)

\* self.working_hours
working_hours_start == 8
working_hours_end == 20

\* get_period_type with the first comparison written decimal_hour <= 9
get_period_type_inclusive(hour, minute) ==
    LET decimal_hour60 == hour * 60 + minute
    IN  IF decimal_hour60 <= 9 * 60 \/ decimal_hour60 >= 18 * 60 THEN "early_late"
        ELSE IF 12 * 60 <= decimal_hour60 /\ decimal_hour60 < 13 * 60 THEN "noon"
        ELSE "normal"

\* get_period_type(hour, minute); decimal_hour = hour + minute / 60.0 is kept
\* exactly, in sixtieths of an hour
get_period_type(hour, minute) ==
    LET decimal_hour60 == hour * 60 + minute
    IN  IF decimal_hour60 < 9 * 60 \/ decimal_hour60 >= 18 * 60 THEN "early_late"
        ELSE IF 12 * 60 <= decimal_hour60 /\ decimal_hour60 < 13 * 60 THEN "noon"
        ELSE "normal"

\* the values current_hour takes in the while loop of get_time_periods
LoopHours(start, end) ==
    IF start < end THEN [i \in 1..(end - start) |-> start + i - 1] ELSE <<>>

\* the optional argument reference_time: None, or a datetime
NoReferenceTime == [given |-> FALSE, dt |-> Datetime(0, 0)]
ReferenceTime(dt) == [given |-> TRUE, dt |-> dt]

\* one iteration of the loop: the period for current_hour
Period(ref_start, current_hour, target) ==
    LET ref_time == replace_hour(ref_start, current_hour)
        target_time == astimezone(ref_time, target)
    IN  [time |-> target_time,
         type |-> get_period_type(HourOf(target_time), MinuteOf(target_time))]

\* get_time_periods(target_tz, reference_time) of the manager whose reference
\* zone is self_tz, called when the clock reads the UTC instant clock.
\* astimezone raises TypeError for an argument that is not a tzinfo.
get_time_periods(self_tz, target, reference_time, clock) ==
    LET rt == IF reference_time.given THEN reference_time.dt ELSE now(self_tz, clock)
        ref_start == replace_hour(rt, working_hours_start)
        hours == LoopHours(working_hours_start, working_hours_end)
    IN  IF hours /= <<>> /\ target.kind /= "tzinfo"
        THEN [raised |-> "TypeError", value |-> <<>>]
        ELSE [raised |-> None,
              value |-> [i \in 1..Len(hours) |-> Period(ref_start, hours[i], target)]]

\* strftime("%H") and strftime("%M"): two decimal digits
Digit(n) == CASE n = 0 -> "0" [] n = 1 -> "1" [] n = 2 -> "2" [] n = 3 -> "3"
              [] n = 4 -> "4" [] n = 5 -> "5" [] n = 6 -> "6" [] n = 7 -> "7"
              [] n = 8 -> "8" [] n = 9 -> "9"
TwoDigits(n) == <<Digit(n \div 10), Digit(n % 10)>>

\* format_time without the branch for non-zero minutes
format_time_hour_only(dt) == TwoDigits(HourOf(dt)) \o <<":", "0", "0">>

\* format_time(dt): the characters of the label
format_time(dt) ==
    IF MinuteOf(dt) /= 0
    THEN TwoDigits(HourOf(dt)) \o <<":">> \o TwoDigits(MinuteOf(dt))
    ELSE TwoDigits(HourOf(dt)) \o <<":", "0", "0">>

\* the label generate_table draws in a cell
cell_label(period) ==
    IF MinuteOf(period.time) /= 0
    THEN TwoDigits(HourOf(period.time)) \o <<":">> \o TwoDigits(MinuteOf(period.time))
    ELSE TwoDigits(HourOf(period.time)) \o <<":", "0", "0">>

-----------------------------------------------------------------------------
(* main: rows and their order *)

\* the dict main appends for one element of timezones
Row(tz, ps) == [timezone |-> tz, periods |-> ps]

\* key=lambda x: x['periods'][0]['time'].hour * 60 + x['periods'][0]['time'].minute
SortKey(x) == HourOf(x.periods[1].time) * 60 + MinuteOf(x.periods[1].time)

\* where sorted() puts x in an already sorted list: after every element whose
\* key is not greater
InsertSorted(x, s) ==
    LET n == Cardinality({i \in 1..Len(s) : SortKey(s[i]) <= SortKey(x)})
    IN  SubSeq(s, 1, n) \o <<x>> \o SubSeq(s, n + 1, Len(s))

RECURSIVE sorted(_)
\* sorted(rows, key=SortKey): a stable sort
sorted(rows) ==
    IF rows = <<>> THEN <<>>
    ELSE InsertSorted(rows[Len(rows)], sorted(SubSeq(rows, 1, Len(rows) - 1)))

-----------------------------------------------------------------------------
(* TimezoneManager: resolution and loading *)

\* a constructor that keeps the name and leaves the lookup of the zone to the
\* first use
init_manager_lazy(reference_timezone, db) ==
    [ok |-> TRUE, zone |-> reference_timezone, msg |-> None]

\* the outcome of TimezoneManager.__init__(reference_timezone): the zone of
\* self.reference_tz, or the message of the ValueError raised
init_manager(reference_timezone, db) ==
    LET country == countries_get(reference_timezone)
        matching_zones == country_timezones_get(country.alpha_2)
        raise(m) == [ok |-> FALSE, zone |-> None, msg |-> m]
        timezone(name) ==
            IF UnknownTimeZone(name, db)
            THEN raise("Invalid timezone or country code")
            ELSE [ok |-> TRUE, zone |-> name, msg |-> None]
    IN  IF HasHyphen(reference_timezone)
        THEN IF reference_timezone \notin MultiCodes
             THEN raise("Invalid multi-timezone country code")
             ELSE timezone(multi_timezone_countries(reference_timezone)[2])
        ELSE IF country /= NoCountry
             THEN IF matching_zones /= <<>>
                  THEN timezone(matching_zones[1])
                  ELSE raise("No timezone found for country")
             ELSE timezone(reference_timezone)

\* get_timezone_for_country(country_code): a zone identifier or None
get_timezone_for_country(country_code) ==
    LET country == countries_get(country_code)
        matching_zones == country_timezones_get(country.alpha_2)
    IN  IF country_code \in MultiCodes
        THEN multi_timezone_countries(country_code)[2]
        ELSE IF country /= NoCountry /\ matching_zones /= <<>>
             THEN matching_zones[1]
             ELSE None

\* get_country_name(country_code)
get_country_name(country_code) ==
    IF country_code \in MultiCodes
    THEN multi_timezone_countries(country_code)[1]
    ELSE IF countries_get(country_code) /= NoCountry
         THEN countries_get(country_code).name
         ELSE country_code

\* A line of the file is the sequence of its lexical items: " " (a run of
\* whitespace), "#", or a word (a maximal run of other characters).
\* str.strip()
strip(line) ==
    LET lead == Cardinality({i \in 1..Len(line) : \A j \in 1..i : line[j] = " "})
        rest == SubSeq(line, lead + 1, Len(line))
        trail == Cardinality({i \in 1..Len(rest) :
                                \A j \in i..Len(rest) : rest[j] = " "})
    IN  SubSeq(rest, 1, Len(rest) - trail)

\* line.split('#')[0]
before_hash(line) ==
    SubSeq(line, 1, Cardinality({i \in 1..Len(line) :
                                   \A j \in 1..i : line[j] /= "#"}))

\* the country code load_timezones extracts from a line; "" when the line is
\* skipped (empty, a comment, or without a code)
country_code_of(raw) ==
    LET line == strip(raw)
        code == IF line = <<>> THEN <<>> ELSE strip(before_hash(line))
    IN  IF line = <<>> \/ line[1] = "#" THEN ""
        ELSE IF code = <<>> THEN "" ELSE code[1]

\* a loop body that starts the list again at a line it cannot resolve
load_line_restart(timezone_data_in, raw, db) ==
    LET country_code == country_code_of(raw)
        tz_name == get_timezone_for_country(country_code)
    IN  IF country_code = "" THEN [data |-> timezone_data_in, warned |-> 0]
        ELSE IF tz_name = None \/ UnknownTimeZone(tz_name, db)
        THEN [data |-> <<>>, warned |-> 1]
        ELSE [data |-> Append(timezone_data_in,
                              Pair(get_country_name(country_code), Tz(tz_name))),
              warned |-> 0]

\* the body of the for loop of load_timezones for one line: the list after it
\* and the number of warnings printed
load_line(timezone_data_in, raw, db) ==
    LET country_code == country_code_of(raw)
        tz_name == get_timezone_for_country(country_code)
        skip(w) == [data |-> timezone_data_in, warned |-> w]
    IN  IF country_code = "" THEN skip(0)
        ELSE IF tz_name = None THEN skip(1)
        ELSE IF UnknownTimeZone(tz_name, db) THEN skip(1)
        ELSE [data |-> Append(timezone_data_in,
                              Pair(get_country_name(country_code), Tz(tz_name))),
              warned |-> 0]

RECURSIVE load_timezones(_, _)
\* load_timezones on a whole file: the list it returns
load_timezones(lines, db) ==
    IF lines = <<>> THEN <<>>
    ELSE load_line(load_timezones(SubSeq(lines, 1, Len(lines) - 1), db),
                   lines[Len(lines)], db).data

-----------------------------------------------------------------------------
(* Inputs *)

\* values of --reference
References ==
    {"FRA", "USA-E", "CHN-W", "Europe/Paris", "Etc/GMT-5",
     "America/Port-au-Prince", "USA-X", "XXX", "BVT", "France"}

\* lines of the countries file
Lines ==
    {<<" ">>, <<" ", "#", "FRA">>, <<"FRA">>, <<"DEU", " ", "#", "Germany">>,
     <<"USA-E", "#", "east">>, <<" ", "IND", " ", "extra">>, <<"XXX">>,
     <<"CHN-W">>, <<"BVT">>}

\* clock readings while main builds the rows
RunClocks == {EuropeSpring - 90, EuropeSpring + 600}

-----------------------------------------------------------------------------
(* One run of main() *)

EngineIdle ==
    /\ mode = "run"
    /\ target_tz = NoneTz
    /\ anchor = 0
    /\ reference_time_arg = NoReferenceTime
    /\ output_path = Writable
    /\ periods = <<>>
    /\ labels = <<>>
    /\ hour_in = 0
    /\ minute_in = 0
    /\ type_out = None

\* after parse_arguments: the countries file exists
Init ==
    /\ pc = "init"
    /\ all_timezones \in Databases
    /\ reference \in References
    /\ countries = <<>>
    /\ reference_tz = NoneTz
    /\ file_opened = FALSE
    /\ timezones = <<>>
    /\ warnings = 0
    /\ timezone_data = <<>>
    /\ calls = 0
    /\ err = NoErr
    /\ stderr = <<>>
    /\ exit_code = NoExit
    /\ rendered = FALSE
    /\ output_written = FALSE
    /\ title = NoTitle
    /\ EngineIdle

\* except Exception as e: print(f"Error: {e}", file=sys.stderr); sys.exit(1)
Handler(type, msg) ==
    /\ err' = [type |-> type, msg |-> msg]
    /\ stderr' = Append(stderr, msg)
    /\ exit_code' = 1
    /\ pc' = "done"

\* tz_manager = TimezoneManager(args.reference)
Construct ==
    /\ pc = "init"
    /\ LET r == init_manager(reference, all_timezones)
       IN  IF r.ok
           THEN /\ reference_tz' = Tz(r.zone)
                /\ pc' = "open"
                /\ UNCHANGED <<err, stderr, exit_code>>
           ELSE /\ Handler("ValueError", r.msg)
                /\ UNCHANGED reference_tz
    /\ UNCHANGED <<title, all_timezones,
                   reference, countries, file_opened, timezones,
                   warnings, timezone_data, calls, rendered, output_written>>
    /\ UNCHANGED engineVars

\* load_timezones: with open(timezone_file, 'r') as f
OpenFile ==
    /\ pc = "open"
    /\ file_opened' = TRUE
    /\ pc' = "loading"
    /\ UNCHANGED <<title, all_timezones,
                   reference, countries, reference_tz, timezones,
                   warnings, timezone_data, calls, err, stderr, exit_code,
                   rendered, output_written>>
    /\ UNCHANGED engineVars

\* load_timezones: one iteration of for line in f
LoadLine ==
    /\ pc = "loading"
    /\ Len(countries) < MaxLines
    /\ \E raw \in Lines :
          LET r == load_line(timezones, raw, all_timezones)
          IN  /\ countries' = Append(countries, raw)
              /\ timezones' = r.data
              /\ warnings' = warnings + r.warned
    /\ UNCHANGED <<title, pc, all_timezones,
                   reference, reference_tz, file_opened,
                   timezone_data, calls, err, stderr, exit_code, rendered,
                   output_written>>
    /\ UNCHANGED engineVars

\* a return without main's check of the list
LoadReturn_unchecked ==
    /\ pc = "loading"
    /\ pc' = "rows"
    /\ UNCHANGED <<err, stderr, exit_code>>
    /\ UNCHANGED <<title, all_timezones,
                   reference, countries, reference_tz, file_opened,
                   timezones, warnings, timezone_data, calls, rendered,
                   output_written>>
    /\ UNCHANGED engineVars

\* load_timezones returns at the end of the file; main checks the list
LoadReturn ==
    /\ pc = "loading"
    /\ IF timezones = <<>>
       THEN Handler("ValueError", "No valid timezones found in the input file")
       ELSE /\ pc' = "rows"
            /\ UNCHANGED <<err, stderr, exit_code>>
    /\ UNCHANGED <<title, all_timezones,
                   reference, countries, reference_tz, file_opened,
                   timezones, warnings, timezone_data, calls, rendered,
                   output_written>>
    /\ UNCHANGED engineVars

\* one iteration of for tz in timezones: the element itself is passed to
\* get_time_periods
BuildRow ==
    /\ pc = "rows"
    /\ \E clock \in RunClocks :
          LET tz == timezones[Len(timezone_data) + 1]
              r == get_time_periods(reference_tz, tz, NoReferenceTime, clock)
          IN  /\ calls' = calls + 1
              /\ IF r.raised /= None
                 THEN /\ Handler(r.raised, "tzinfo argument must be None or of a tzinfo subclass")
                      /\ UNCHANGED timezone_data
                 ELSE /\ timezone_data' = Append(timezone_data, Row(tz, r.value))
                      /\ pc' = IF Len(timezone_data) + 1 = Len(timezones)
                               THEN "sort" ELSE "rows"
                      /\ UNCHANGED <<err, stderr, exit_code>>
    /\ UNCHANGED <<title, all_timezones,
                   reference, countries, reference_tz, file_opened,
                   timezones, warnings, rendered, output_written>>
    /\ UNCHANGED engineVars

Next == Construct \/ OpenFile \/ LoadLine \/ LoadReturn \/ BuildRow

Spec == Init /\ [][Next]_vars

-----------------------------------------------------------------------------
(* TableGenerator: the title and the table *)

\* tz.dst() is non-zero at the UTC instant u: daylight saving is in force
dst(z, u) ==
    CASE z \in {"Europe/Paris", "Europe/Berlin", "Europe/Busingen"} -> u >= EuropeSpring
      [] z = "Australia/Sydney" -> u < SydneyAutumn
      [] z = "Australia/Adelaide" -> u < AdelaideAutumn
      [] z \in {"America/New_York", "America/Detroit", "America/Toronto",
                "America/Port-au-Prince", "America/Chicago", "America/Winnipeg",
                "America/Denver", "America/Edmonton", "America/Los_Angeles",
                "America/Vancouver"} -> TRUE
      [] OTHER -> FALSE

\* dt.strftime('%z'): sign, two digits of hours, two digits of minutes
strftime_z(dt) ==
    LET a == IF dt.off < 0 THEN 0 - dt.off ELSE dt.off
    IN  <<IF dt.off < 0 THEN "-" ELSE "+">> \o TwoDigits(a \div 60) \o TwoDigits(a % 60)

\* the countries pycountry iterates over
Countries == {"FRA", "DEU", "IND", "NPL", "USA", "BVT", "HTI"}

\* zone.split('/')[-1]: the text after the last '/', the whole identifier
\* when it has none (UTC)
LastSegment(zone) ==
    CASE zone = "Europe/Paris" -> "Paris"
      [] zone = "Europe/Berlin" -> "Berlin"
      [] zone = "Europe/Busingen" -> "Busingen"
      [] zone = "Asia/Kolkata" -> "Kolkata"
      [] zone = "Asia/Kathmandu" -> "Kathmandu"
      [] zone = "America/New_York" -> "New_York"
      [] zone = "America/Detroit" -> "Detroit"
      [] zone = "America/Chicago" -> "Chicago"
      [] zone = "America/Denver" -> "Denver"
      [] zone = "America/Los_Angeles" -> "Los_Angeles"
      [] zone = "Europe/Moscow" -> "Moscow"
      [] zone = "Asia/Yekaterinburg" -> "Yekaterinburg"
      [] zone = "Asia/Vladivostok" -> "Vladivostok"
      [] zone = "America/Toronto" -> "Toronto"
      [] zone = "America/Winnipeg" -> "Winnipeg"
      [] zone = "America/Edmonton" -> "Edmonton"
      [] zone = "America/Vancouver" -> "Vancouver"
      [] zone = "America/Sao_Paulo" -> "Sao_Paulo"
      [] zone = "America/Manaus" -> "Manaus"
      [] zone = "Asia/Shanghai" -> "Shanghai"
      [] zone = "Asia/Urumqi" -> "Urumqi"
      [] zone = "Australia/Sydney" -> "Sydney"
      [] zone = "Australia/Adelaide" -> "Adelaide"
      [] zone = "Australia/Perth" -> "Perth"
      [] zone = "Etc/GMT-5" -> "GMT-5"
      [] zone = "America/Port-au-Prince" -> "Port-au-Prince"
      [] OTHER -> zone

\* get_reference_country_name() of a manager whose reference zone is zone
get_reference_country_name(zone) ==
    IF \E code \in MultiCodes : multi_timezone_countries(code)[2] = zone
    THEN multi_timezone_countries(
             CHOOSE code \in MultiCodes : multi_timezone_countries(code)[2] = zone)[1]
    ELSE LET listing == {c \in Countries :
                            \E k \in 1..Len(country_timezones_get(countries_get(c).alpha_2)) :
                                country_timezones_get(countries_get(c).alpha_2)[k] = zone}
         IN  IF listing /= {}
             THEN countries_get(CHOOSE c \in listing : TRUE).name
             ELSE LastSegment(zone)

\* the title _draw_title composes: the offset is formatted from one reading
\* of the clock (offset_clock), the season word comes from the next
\* (season_clock)
draw_title(self_tz, offset_clock, season_clock) ==
    LET offset == strftime_z(now(self_tz, offset_clock))
        offset_str == <<"G", "M", "T", " ">> \o SubSeq(offset, 1, 3) \o <<":">>
                          \o SubSeq(offset, 4, Len(offset))
    IN  [season |-> IF dst(self_tz.zone, season_clock) THEN "Summer" ELSE "Winter",
         country |-> get_reference_country_name(self_tz.zone),
         offset_str |-> offset_str]

\* generate_table(table_data, output_path, ...): the outcome. The row loop
\* reads data['country']; then the parent directory is created and the image
\* saved, a failing save being raised again as OSError
generate_table(table_data, path) ==
    IF table_data = <<>> THEN [raised |-> "ValueError", msg |-> "No timezone data provided"]
    ELSE IF \E i \in 1..Len(table_data) : "country" \notin DOMAIN table_data[i]
         THEN [raised |-> "KeyError", msg |-> "'country'"]
         ELSE IF path = UnderAFile
              THEN [raised |-> "NotADirectoryError", msg |-> "Not a directory"]
              ELSE IF path = Unwritable
                   THEN [raised |-> "OSError", msg |-> "Failed to save image"]
                   ELSE [raised |-> None, msg |-> None]

-----------------------------------------------------------------------------
(* The engine's functions on drawn inputs *)

\* reference zones and target zones tried
EngineReferences ==
    {"Europe/Paris", "Australia/Adelaide", "Asia/Kolkata", "America/New_York", "UTC"}
EngineTargets ==
    {"Europe/Berlin", "Asia/Kolkata", "Asia/Kathmandu", "America/Los_Angeles",
     "Australia/Adelaide", "Asia/Vladivostok", "UTC"}

\* clock readings tried: 2024-03-30, 2024-03-31 and 2024-04-06 (UTC days)
AnchorDays == {0, 1, 7}
Anchors ==
    {d * MinutesPerDay + k * AnchorStep :
        d \in AnchorDays, k \in 0..((MinutesPerDay - 1) \div AnchorStep)}

RunIdle ==
    /\ all_timezones = FullZones
    /\ reference = None
    /\ countries = <<>>
    /\ file_opened = FALSE
    /\ warnings = 0
    /\ err = NoErr
    /\ stderr = <<>>
    /\ exit_code = NoExit
    /\ rendered = FALSE
    /\ output_written = FALSE
    /\ title = NoTitle

InitClassify ==
    /\ mode = "classify"
    /\ pc = "call"
    /\ hour_in \in 0..23
    /\ minute_in \in 0..59
    /\ reference_tz = NoneTz
    /\ target_tz = NoneTz
    /\ anchor = 0
    /\ reference_time_arg = NoReferenceTime
    /\ output_path = Writable
    /\ timezones = <<>>
    /\ timezone_data = <<>>
    /\ calls = 0

InitPeriods ==
    /\ mode = "periods"
    /\ pc = "call"
    /\ hour_in = 0
    /\ minute_in = 0
    /\ reference_tz \in {Tz(z) : z \in EngineReferences}
    /\ target_tz \in {Tz(z) : z \in EngineTargets}
    /\ anchor \in Anchors
    /\ reference_time_arg = NoReferenceTime
    /\ output_path = Writable
    /\ timezones = <<>>
    /\ timezone_data = <<>>
    /\ calls = 0

\* explicit anchors: instants of 2024-04-02 (UTC), every three hours from
\* 00:30Z, as datetimes of several zones
ExplicitReferences == {"Europe/Paris", "Asia/Kolkata"}
ExplicitTargets == {"UTC", "Asia/Kathmandu", "America/Los_Angeles"}
ExplicitInstants == {3 * MinutesPerDay + h * 180 + 30 : h \in 0..7}
ExplicitZones ==
    {"Europe/Paris", "UTC", "Asia/Kolkata", "America/Los_Angeles",
     "Australia/Adelaide"}

InitExplicit ==
    /\ mode = "explicit"
    /\ pc = "call"
    /\ hour_in = 0
    /\ minute_in = 0
    /\ reference_tz \in {Tz(z) : z \in ExplicitReferences}
    /\ target_tz \in {Tz(z) : z \in ExplicitTargets}
    /\ anchor \in ExplicitInstants
    /\ reference_time_arg \in {ReferenceTime(now(Tz(z), anchor)) : z \in ExplicitZones}
    /\ output_path = Writable
    /\ timezones = <<>>
    /\ timezone_data = <<>>
    /\ calls = 0

\* _draw_title's arguments: the reference zone (of the manager passed with
\* it), and the clock when it is called
TitleReferences == {"Europe/Paris", "Asia/Kolkata", "America/New_York", "UTC"}
TitleClocks ==
    {EuropeSpring - 90, EuropeSpring - 1, EuropeSpring, EuropeSpring + 600}
\* minutes the clock may advance between two calls of datetime.now()
ClockTicks == {0, 1}

InitTitle ==
    /\ mode = "title"
    /\ pc = "call"
    /\ hour_in = 0
    /\ minute_in = 0
    /\ reference_tz \in {Tz(z) : z \in TitleReferences}
    /\ target_tz = NoneTz
    /\ anchor \in TitleClocks
    /\ reference_time_arg = NoReferenceTime
    /\ output_path = Writable
    /\ timezones = <<>>
    /\ timezone_data = <<>>
    /\ calls = 0

\* a row with the keys generate_table reads
CountryRow(name, ps) == [country |-> name, periods |-> ps]

\* generate_table's arguments: rows as main's loop is written to build them
\* (keys 'timezone' and 'periods') and rows with the key 'country', their
\* periods being those of get_time_periods
TableRows(self_tz, clock) ==
    {Row(Pair("India", Tz("Asia/Kolkata")),
         get_time_periods(self_tz, Tz("Asia/Kolkata"), NoReferenceTime, clock).value),
     CountryRow("India",
         get_time_periods(self_tz, Tz("Asia/Kolkata"), NoReferenceTime, clock).value),
     CountryRow("Nepal",
         get_time_periods(self_tz, Tz("Asia/Kathmandu"), NoReferenceTime, clock).value)}
TableReferences == {"Europe/Paris", "Asia/Kolkata"}

InitTable ==
    /\ mode = "table"
    /\ pc = "call"
    /\ hour_in = 0
    /\ minute_in = 0
    /\ reference_tz \in {Tz(z) : z \in TableReferences}
    /\ target_tz = NoneTz
    /\ anchor \in TitleClocks
    /\ reference_time_arg = NoReferenceTime
    /\ output_path \in OutputPaths
    /\ timezones = <<>>
    /\ timezone_data \in UNION {[1..n -> TableRows(reference_tz, anchor)] : n \in 0..MaxRows}
    /\ calls = 0

InitEngine ==
    /\ RunIdle
    /\ periods = <<>>
    /\ labels = <<>>
    /\ type_out = None
    /\ (InitClassify \/ InitPeriods \/ InitExplicit \/ InitTitle \/ InitTable)

\* get_period_type(hour_in, minute_in)
GetPeriodType ==
    /\ mode = "classify"
    /\ pc = "call"
    /\ type_out' = get_period_type(hour_in, minute_in)
    /\ pc' = "returned"
    /\ UNCHANGED <<output_path, reference_time_arg, mode, target_tz, anchor, periods, labels, hour_in, minute_in>>
    /\ UNCHANGED <<title, all_timezones,
                   reference, countries, reference_tz, file_opened,
                   timezones, warnings, timezone_data, calls, err, stderr,
                   exit_code, rendered, output_written>>

\* get_time_periods(target_tz) with the default reference_time
GetTimePeriods ==
    /\ mode = "periods"
    /\ pc = "call"
    /\ periods' = get_time_periods(reference_tz, target_tz, NoReferenceTime, anchor).value
    /\ calls' = calls + 1
    /\ pc' = "returned"
    /\ UNCHANGED <<output_path, reference_time_arg, mode, target_tz, anchor, labels, hour_in, minute_in, type_out>>
    /\ UNCHANGED <<title, all_timezones,
                   reference, countries, reference_tz, file_opened,
                   timezones, warnings, timezone_data, err, stderr, exit_code,
                   rendered, output_written>>

\* get_time_periods(target_tz, reference_time) with an explicit reference_time
GetTimePeriodsAt ==
    /\ mode = "explicit"
    /\ pc = "call"
    /\ periods' = get_time_periods(reference_tz, target_tz, reference_time_arg,
                                   anchor).value
    /\ calls' = calls + 1
    /\ pc' = "returned"
    /\ UNCHANGED <<output_path, reference_time_arg, mode, target_tz, anchor, labels, hour_in,
                   minute_in, type_out>>
    /\ UNCHANGED <<title, all_timezones, reference, countries, reference_tz,
                   file_opened, timezones, warnings, timezone_data, err, stderr,
                   exit_code, rendered, output_written>>

\* _draw_title(draw, reference_tz, width, title_height, timezone_manager)
\* called when the clock reads anchor: datetime.now(reference_tz) is called
\* once for the offset and once more for the season
DrawTitle ==
    /\ mode = "title"
    /\ pc = "call"
    /\ \E tick \in ClockTicks :
          title' = draw_title(reference_tz, anchor, anchor + tick)
    /\ pc' = "returned"
    /\ UNCHANGED <<output_path, reference_time_arg, mode, target_tz, anchor, periods, labels,
                   hour_in, minute_in, type_out>>
    /\ UNCHANGED <<all_timezones, reference, countries, reference_tz,
                   file_opened, timezones, warnings, timezone_data, calls, err,
                   stderr, exit_code, rendered, output_written>>

\* generate_table(timezone_data, output_path, reference_tz, timezone_manager)
\* called when the clock reads anchor: a table without rows is refused before
\* anything is drawn; otherwise the title is drawn, then the rows, then the
\* image is saved; an exception leaves the function at the failing step
GenerateTable ==
    /\ mode = "table"
    /\ pc = "call"
    /\ rendered' = TRUE
    /\ IF timezone_data = <<>>
       THEN UNCHANGED title
       ELSE \E tick \in ClockTicks :
               title' = draw_title(reference_tz, anchor, anchor + tick)
    /\ LET r == generate_table(timezone_data, output_path)
       IN  /\ err' = IF r.raised /= None THEN [type |-> r.raised, msg |-> r.msg] ELSE err
           /\ output_written' = (r.raised = None)
    /\ pc' = "returned"
    /\ UNCHANGED <<output_path, reference_time_arg, mode, target_tz, anchor, periods,
                   labels, hour_in, minute_in, type_out>>
    /\ UNCHANGED <<all_timezones, reference, countries, reference_tz,
                   file_opened, timezones, warnings, timezone_data, calls,
                   stderr, exit_code>>

\* the label of every period: format_time, and the text generate_table draws
FormatLabels ==
    /\ mode = "periods"
    /\ pc = "returned"
    /\ labels' = [i \in 1..Len(periods) |->
                    [text |-> format_time(periods[i].time),
                     cell |-> cell_label(periods[i])]]
    /\ pc' = "formatted"
    /\ UNCHANGED <<output_path, reference_time_arg, mode, target_tz, anchor, periods, hour_in, minute_in, type_out>>
    /\ UNCHANGED <<title, all_timezones,
                   reference, countries, reference_tz, file_opened,
                   timezones, warnings, timezone_data, calls, err, stderr,
                   exit_code, rendered, output_written>>

NextEngine ==
    \/ GetPeriodType \/ GetTimePeriods \/ GetTimePeriodsAt \/ FormatLabels
    \/ DrawTitle \/ GenerateTable

SpecEngine == InitEngine /\ [][NextEngine]_vars

-----------------------------------------------------------------------------
(* Properties of the engine (SpecEngine) *)

PeriodsReturned == mode = "periods" /\ pc /= "call"

\* the calendar date of the run's anchor on the reference zone's clock
AnchorDate == DateOf(now(reference_tz, anchor))

\* the instant at which zone z's wall clock reads w (w outside any gap or
\* overlap of the zone's clock)
WallInstant(z, w) ==
    CHOOSE u \in {w - utcoffset(z, w - 2 * MinutesPerDay),
                  w - utcoffset(z, w + 2 * MinutesPerDay)} :
        u + utcoffset(z, u) = w

\* the reference hour of the i-th period (i from 1)
ReferenceHour(i) == working_hours_start + i - 1

\* C1: get_time_periods returns end_hour - start_hour periods, and the i-th is
\* the target-zone local time of the instant at which the reference zone's
\* clock reads reference hour start_hour + i on the anchor's date, in
\* reference-hour order.
C1_PeriodsFollowReferenceHours ==
    PeriodsReturned =>
        /\ Len(periods) = working_hours_end - working_hours_start
        /\ \A i \in 1..Len(periods) :
              LET u == WallInstant(reference_tz.zone,
                                   AnchorDate * MinutesPerDay + ReferenceHour(i) * 60)
              IN  periods[i].time =
                      Datetime(u + utcoffset(target_tz.zone, u),
                               utcoffset(target_tz.zone, u))

\* What does hold of every returned sequence: end_hour - start_hour periods,
\* one hour of real time apart, the first at the hour start_hour of a clock
\* that keeps the anchor's UTC offset for the whole day.
PeriodsHourlyFromAnchorOffset ==
    PeriodsReturned =>
        /\ Len(periods) = working_hours_end - working_hours_start
        /\ \A i \in 1..Len(periods) :
              Instant(periods[i].time) =
                  AnchorDate * MinutesPerDay + ReferenceHour(i) * 60
                      - utcoffset(reference_tz.zone, anchor)

\* the classification rule of the claim, on minutes since local midnight
ClaimedType(m) ==
    IF m < 540 \/ m >= 1080 THEN "early_late"
    ELSE IF 720 <= m /\ m < 780 THEN "noon"
    ELSE "normal"

\* C2: get_period_type returns EARLY_LATE exactly below 09:00 and from 18:00,
\* NOON exactly from 12:00 to 12:59, NORMAL otherwise, and every period of
\* get_time_periods carries the type of its own target-local hour and minute.
C2_Classification ==
    /\ (mode = "classify" /\ pc = "returned") =>
          type_out = ClaimedType(hour_in * 60 + minute_in)
    /\ PeriodsReturned =>
          \A i \in 1..Len(periods) :
              periods[i].type =
                  ClaimedType(HourOf(periods[i].time) * 60 + MinuteOf(periods[i].time))

\* a boundary of the rule has been classified: 12:59 is NOON
C2_Witness ==
    /\ mode = "classify" /\ pc = "returned"
    /\ hour_in = 12 /\ minute_in = 59 /\ type_out = "noon"

\* a returned sequence with a period at 08:30 or 08:45 target-local time,
\* classified EARLY_LATE
C2_PeriodsWitness ==
    /\ PeriodsReturned
    /\ \E i \in 1..Len(periods) :
          /\ MinuteOf(periods[i].time) /= 0
          /\ HourOf(periods[i].time) = 8
          /\ periods[i].type = "early_late"

\* C5: the instant converted for the i-th period reads (start_hour + i):00 on
\* the reference zone's wall clock on the anchor's calendar date, whatever the
\* date, so every period lies within [start_hour, end_hour) of the reference
\* zone.
C5_ReferenceWallClock ==
    PeriodsReturned =>
        \A i \in 1..Len(periods) :
            LET u == Instant(periods[i].time)
                wall == Datetime(u + utcoffset(reference_tz.zone, u),
                                 utcoffset(reference_tz.zone, u))
            IN  /\ DateOf(wall) = AnchorDate
                /\ HourOf(wall) = ReferenceHour(i)
                /\ MinuteOf(wall) = 0

\* the target's UTC offset at instant u is a half-hour offset
HalfHourOffset(z, u) == utcoffset(z, u) % 60 = 30

\* the label shows the minutes of the time dt
ShowsMinutes(label, dt) ==
    /\ Len(label) = 5
    /\ label[3] = ":"
    /\ <<label[4], label[5]>> /= <<"0", "0">>
    /\ label[4] = Digit(MinuteOf(dt) \div 10)
    /\ label[5] = Digit(MinuteOf(dt) % 10)

PeriodsFormatted == mode = "periods" /\ pc = "formatted"

\* C10 as claimed: for every reference zone, a target zone at a half-hour
\* offset has a period with non-zero minute, labelled with its minutes.
C10_HalfHourAnyReference ==
    (PeriodsFormatted /\ HalfHourOffset(target_tz.zone, anchor)) =>
        \E i \in 1..Len(periods) :
            /\ MinuteOf(periods[i].time) /= 0
            /\ ShowsMinutes(labels[i].text, periods[i].time)
            /\ ShowsMinutes(labels[i].cell, periods[i].time)

\* C10 as amended: for every reference zone whose UTC offset is a whole number
\* of hours, a target zone at a half-hour offset has periods with non-zero
\* minute (all of them), each labelled with its minutes.
C10_HalfHourWholeHourReference ==
    (/\ PeriodsFormatted
     /\ utcoffset(reference_tz.zone, anchor) % 60 = 0
     /\ \A i \in 1..Len(periods) :
           HalfHourOffset(target_tz.zone, Instant(periods[i].time))) =>
        /\ periods /= <<>>
        /\ \A i \in 1..Len(periods) :
              /\ MinuteOf(periods[i].time) = 30
              /\ ShowsMinutes(labels[i].text, periods[i].time)
              /\ ShowsMinutes(labels[i].cell, periods[i].time)

\* a reference at a whole-hour offset, a target at UTC+5:30, labels formatted
C10_Witness ==
    /\ PeriodsFormatted
    /\ reference_tz.zone = "Europe/Paris"
    /\ target_tz.zone = "Asia/Kolkata"
    /\ labels /= <<>>
    /\ labels[1].text \in {<<"1", "1", ":", "3", "0">>, <<"1", "2", ":", "3", "0">>}

-----------------------------------------------------------------------------
(* Properties of one run of main (Spec) *)

\* the line carries a token that has no mapping
NoMapping(raw) ==
    /\ country_code_of(raw) /= ""
    /\ get_timezone_for_country(country_code_of(raw)) = None

\* the line carries a token that maps to a zone the database does not know
UnknownZone(raw) ==
    /\ country_code_of(raw) /= ""
    /\ get_timezone_for_country(country_code_of(raw)) /= None
    /\ get_timezone_for_country(country_code_of(raw)) \notin all_timezones

\* the line carries a token that resolves
Resolves(raw) ==
    /\ country_code_of(raw) /= ""
    /\ ~NoMapping(raw)
    /\ ~UnknownZone(raw)

Unresolved(raw) == NoMapping(raw) \/ UnknownZone(raw)
Kept(raw) == ~Unresolved(raw)

\* the reference resolved and the file yields a resolved location
RunWithRows == pc = "done" /\ reference_tz /= NoneTz /\ timezones /= <<>>

\* In every run of main the row loop leaves no row: nothing is sorted, no
\* table is generated and no title is drawn.
RunBuildsNoRow ==
    /\ timezone_data = <<>>
    /\ pc /= "sort"
    /\ ~rendered
    /\ ~output_written
    /\ title = NoTitle

\* C3: with a resolved reference and at least one resolved location, main
\* builds one Row per resolved pair, with that pair's periods and the label
\* the renderer reads, and exits with code 0.
C3_OneRowPerPairExitZero ==
    RunWithRows =>
        /\ exit_code = 0
        /\ Len(timezone_data) = Len(timezones)
        /\ \A i \in 1..Len(timezone_data) :
              /\ Len(timezone_data[i].periods) = working_hours_end - working_hours_start
              /\ "country" \in DOMAIN timezone_data[i]

\* C6: a line whose token does not resolve raises nothing, adds no entry and
\* leaves the accumulated list as it was: the list is the one of the same
\* file without those lines, one entry per resolved line, in file order.
C6_UnresolvedLineSkipped ==
    file_opened =>
        /\ pc = "loading" => err = NoErr /\ exit_code = NoExit
        /\ timezones = load_timezones(SelectSeq(countries, Kept), all_timezones)
        /\ timezones =
              [k \in 1..Len(SelectSeq(countries, Resolves)) |->
                  LET code == country_code_of(SelectSeq(countries, Resolves)[k])
                  IN  Pair(get_country_name(code), Tz(get_timezone_for_country(code)))]
        /\ warnings = Len(SelectSeq(countries, Unresolved))

\* a resolved line, then a token without mapping, then a token whose zone the
\* database lacks, then the end of the file
C6_Witness ==
    /\ pc = "rows"
    /\ Len(countries) = 3
    /\ Resolves(countries[1])
    /\ NoMapping(countries[2])
    /\ UnknownZone(countries[3])
    /\ timezones = <<Pair("Germany", Tz("Europe/Berlin"))>>
    /\ warnings = 2

\* the loading pass has ended and no line of the file resolved
LoadedNothing ==
    /\ file_opened
    /\ pc /= "loading"
    /\ \A i \in 1..Len(countries) : ~Resolves(countries[i])

\* C7: when no line resolves the run fails with EMPTY_RESULT after the whole
\* file: no period computed, no rendering, no output, non-zero exit and one
\* message on standard error.
C7_EmptyResult ==
    LoadedNothing =>
        /\ pc = "done"
        /\ err = [type |-> "ValueError",
                  msg |-> "No valid timezones found in the input file"]
        /\ warnings = Len(SelectSeq(countries, Unresolved))
        /\ calls = 0
        /\ timezone_data = <<>>
        /\ ~rendered
        /\ ~output_written
        /\ exit_code /= 0 /\ exit_code /= NoExit
        /\ Len(stderr) = 1

\* a file of a comment and two unknown tokens has been processed
C7_Witness ==
    /\ LoadedNothing
    /\ Len(countries) = 3
    /\ country_code_of(countries[1]) = ""
    /\ NoMapping(countries[2])
    /\ NoMapping(countries[3])
    /\ exit_code = 1

\* the token is a known composite code, a known country code (with a zone) or
\* a zone identifier of the database
ReferenceResolvable ==
    \/ /\ reference \in MultiCodes
       /\ multi_timezone_countries(reference)[2] \in all_timezones
    \/ /\ countries_get(reference) /= NoCountry
       /\ country_timezones_get(countries_get(reference).alpha_2) /= <<>>
    \/ reference \in all_timezones

InvalidReferenceMessages ==
    {"Invalid multi-timezone country code", "No timezone found for country",
     "Invalid timezone or country code"}

\* C8: an unresolvable reference fails in the constructor, before the file is
\* opened or a line read, and the run ends non-zero without rows or output.
C8_InvalidReferenceFirst ==
    ~ReferenceResolvable =>
        /\ pc \in {"init", "done"}
        /\ reference_tz = NoneTz
        /\ ~file_opened
        /\ countries = <<>>
        /\ timezones = <<>> /\ timezone_data = <<>>
        /\ calls = 0
        /\ ~rendered /\ ~output_written
        /\ pc = "done" =>
              /\ err.type = "ValueError"
              /\ err.msg \in InvalidReferenceMessages
              /\ exit_code /= 0 /\ exit_code /= NoExit
              /\ Len(stderr) = 1

\* the run has ended on a reference that is no code and no zone identifier
C8_Witness ==
    /\ pc = "done"
    /\ reference = "France"
    /\ ~ReferenceResolvable
    /\ err = [type |-> "ValueError", msg |-> "Invalid timezone or country code"]
    /\ exit_code = 1

\* C9: construction resolves every known country code, known composite code
\* and zone identifier of the database (whatever its characters), and fails
\* with INVALID_REFERENCE only for a token that is none of these.
C9_ReferenceResolves ==
    pc /= "init" =>
        (reference_tz /= NoneTz <=> ReferenceResolvable)

-----------------------------------------------------------------------------
(* Properties of the anchor (SpecEngine) *)

\* the instant the explicit anchor denotes, and its calendar date on the
\* reference zone's clock
GivenInstant == Instant(reference_time_arg.dt)
GivenReferenceDate == DateOf(now(reference_tz, GivenInstant))

ExplicitReturned == mode = "explicit" /\ pc = "returned"

\* C12: an explicit anchor of another zone is first brought to the reference
\* zone: the i-th period is the target-zone local time of the instant at
\* which the reference clock reads (start_hour + i):00 on the reference-zone
\* date of the anchor, so anchors denoting the same instant in different
\* zones give identical sequences.
C12_AnchorBroughtToReferenceZone ==
    ExplicitReturned =>
        /\ \A i \in 1..Len(periods) :
              LET u == WallInstant(reference_tz.zone,
                                   GivenReferenceDate * MinutesPerDay
                                       + ReferenceHour(i) * 60)
              IN  periods[i].time =
                      Datetime(u + utcoffset(target_tz.zone, u),
                               utcoffset(target_tz.zone, u))
        /\ \A z \in ExplicitZones :
              periods =
                  get_time_periods(reference_tz, target_tz,
                                   ReferenceTime(now(Tz(z), GivenInstant)),
                                   anchor).value

\* What does hold: the i-th period is the target-zone local time of the
\* instant at which a clock at the anchor's own UTC offset reads
\* (start_hour + i):00 on the anchor's own calendar date.
PeriodsFollowAnchorsOwnClock ==
    ExplicitReturned =>
        /\ Len(periods) = working_hours_end - working_hours_start
        /\ \A i \in 1..Len(periods) :
              Instant(periods[i].time) =
                  DateOf(reference_time_arg.dt) * MinutesPerDay
                      + ReferenceHour(i) * 60 - reference_time_arg.dt.off

-----------------------------------------------------------------------------
(* Properties of the title (SpecEngine) *)

\* a title has been composed, by _draw_title called alone or by generate_table
TitleDrawn ==
    \/ mode = "title" /\ pc = "returned"
    \/ mode = "table" /\ pc = "returned" /\ timezone_data /= <<>>

\* GMT, sign, two-digit hours, a colon, two-digit minutes for an offset of
\* o minutes
ClaimedOffsetText(o) ==
    <<"G", "M", "T">> \o <<IF o < 0 THEN "-" ELSE "+">>
        \o TwoDigits((IF o < 0 THEN 0 - o ELSE o) \div 60) \o <<":">>
        \o TwoDigits((IF o < 0 THEN 0 - o ELSE o) % 60)

\* C13: the title is derived from the reference zone at one instant, the
\* anchor: the season word tells whether daylight saving is in force then,
\* and the offset is that instant's UTC offset written GMT+HH:MM or
\* GMT-HH:MM, both from the same instant.
C13_TitleFromAnchorInstant ==
    TitleDrawn =>
        /\ title.season = IF dst(reference_tz.zone, anchor) THEN "Summer" ELSE "Winter"
        /\ title.offset_str = ClaimedOffsetText(utcoffset(reference_tz.zone, anchor))

\* Not an invariant either, whatever the separator: season word and offset
\* belong to one and the same reading of the clock.
TitleOfOneInstant ==
    TitleDrawn =>
        \E tick \in ClockTicks :
            /\ title.season = IF dst(reference_tz.zone, anchor + tick)
                              THEN "Summer" ELSE "Winter"
            /\ SubSeq(title.offset_str, 5, 10) =
                  SubSeq(ClaimedOffsetText(utcoffset(reference_tz.zone, anchor + tick)), 4, 9)

\* What does hold: the text is GMT, a space, then sign, hours, colon and
\* minutes of the offset at the first reading of the clock, and the season
\* word is that of the same or the next minute.
TitleFromTwoReadings ==
    TitleDrawn =>
        /\ title.offset_str =
              <<"G", "M", "T", " ">>
                  \o SubSeq(ClaimedOffsetText(utcoffset(reference_tz.zone, anchor)), 4, 9)
        /\ \E tick \in ClockTicks :
              title.season = IF dst(reference_tz.zone, anchor + tick)
                             THEN "Summer" ELSE "Winter"
        /\ title.country = get_reference_country_name(reference_tz.zone)

=============================================================================
